---------------------------- MODULE Spec2Model ----------------------------
(***************************************************************************)
(* Model of src/main.py, the "minimalist-news-app" MCP server: the template *)
(* loader, the two renderers (format_news_card, format_news_carousel) and   *)
(* the tool dispatcher call_tool.                                           *)
(*                                                                          *)
(* Text is a sequence of atoms.  The brace pairs "{{" and "}}" are atoms of *)
(* their own, so a placeholder such as {{title}} is the three-atom text     *)
(* <<"{{", "title", "}}">> and Python's str.replace / str.split / `in` are  *)
(* modelled by what they do on sub-sequences (leftmost, non-overlapping).   *)
(* Every other atom stands for a run of characters that holds no brace.     *)
(***************************************************************************)
EXTENDS Integers, Sequences, FiniteSets, TLC

VARIABLES
    files,      \* assets/components: filename -> [exists, text]
    pc,         \* "idle" (between invocations) or "done" (an invocation ended)
    call,       \* the invocation being served: entry point and its inputs
    locals,     \* call_tool's locals: format_type, limit, mock_articles
    loads,      \* filenames load_template was called with, in order
    log,        \* messages logger.error received, in order
    invoked,    \* renderer calls made by call_tool, with their arguments
    result      \* how the invocation ended: returned text or raised error

vars == <<files, pc, call, locals, loads, log, invoked, result>>

-----------------------------------------------------------------------------
(* Bounds of the model *)

\* longest template, in parts (a part is a literal or a whole placeholder)
MaxTemplateParts == 3
\* longest card template, in parts
MaxCardParts == 2
\* longest article list handed to format_news_carousel directly
MaxArticles == 2
\* largest `limit` argument tried
MaxLimit == 4

-----------------------------------------------------------------------------
(* Python's str operations on atom sequences *)

Min(a, b) == IF a < b THEN a ELSE b

Max(a, b) == IF a > b THEN a ELSE b

\* s[i:i+len(sub)] == sub  (i is 1-based)
IsAt(s, sub, i) ==
    /\ i >= 1
    /\ i + Len(sub) - 1 <= Len(s)
    /\ \A k \in 1..Len(sub) : s[i + k - 1] = sub[k]

\* s.find(sub), 1-based; 0 when absent
Find(s, sub) ==
    LET hits == {i \in 1..Len(s) : IsAt(s, sub, i)}
    IN  IF hits = {} THEN 0 ELSE CHOOSE i \in hits : \A j \in hits : i <= j

\* sub in s  (the empty text is in every text)
Contains(s, sub) == sub = <<>> \/ Find(s, sub) # 0

\* s[i:] for a 1-based i
From(s, i) == SubSeq(s, i, Len(s))

RECURSIVE Replace(_, _, _)
\* s.replace(old, new): every non-overlapping occurrence, left to right
Replace(s, old, new) ==
    LET i == Find(s, old)
    IN  IF i = 0 THEN s
        ELSE SubSeq(s, 1, i - 1) \o new \o Replace(From(s, i + Len(old)), old, new)

RECURSIVE Split(_, _)
\* s.split(sep): the list of pieces around every occurrence of sep
Split(s, sep) ==
    LET i == Find(s, sep)
    IN  IF i = 0 THEN <<s>>
        ELSE <<SubSeq(s, 1, i - 1)>> \o Split(From(s, i + Len(sep)), sep)

\* the slice taken one entry too far: lst[:limit + 1]
SliceTo_Inclusive(lst, limit) ==
    LET n == Len(lst)
        stop == IF limit + 1 < 0 THEN Max(n + limit + 1, 0) ELSE Min(limit + 1, n)
    IN  SubSeq(lst, 1, stop)

\* lst[:limit] for an integer limit (a negative limit counts from the end)
SliceTo(lst, limit) ==
    LET n == Len(lst)
        stop == IF limit < 0 THEN Max(n + limit, 0) ELSE Min(limit, n)
    IN  SubSeq(lst, 1, stop)

\* d.get(k, default) on a dict modelled as a function
Get(d, k, default) == IF k \in DOMAIN d THEN d[k] ELSE default

RECURSIVE Concat(_)
\* "".join(parts)
Concat(parts) ==
    IF parts = <<>> THEN <<>> ELSE Head(parts) \o Concat(Tail(parts))

RECURSIVE SeqsUpTo(_, _)
\* all sequences over S of length at most n
SeqsUpTo(S, n) ==
    IF n = 0 THEN {<<>>}
    ELSE LET shorter == SeqsUpTo(S, n - 1)
         IN  shorter \cup {Append(q, x) : q \in shorter, x \in S}

-----------------------------------------------------------------------------
(* Texts of the program *)

\* the placeholder {{name}}
PH(name) == <<"{{", name, "}}">>

\* the literal "{{#articles}}" of format_news_carousel
StartMarker == PH("#articles")

\* the literal "{{/articles}}" of format_news_carousel
EndMarker == PH("/articles")

\* the link text of the per-article fragment
ReadMore == "Read more ->"

CardFile == "news_card.html"

CarouselFile == "news_carousel.html"

\* the keys format_news_card and format_news_carousel read from an article
Fields == {"title", "source", "time", "description", "url", "image"}

-----------------------------------------------------------------------------
(* How a Python call ends *)

Returned(t) == [outcome |-> "returned", text |-> t, exc |-> "", msg |-> <<>>]

Raised(e, m) == [outcome |-> "raised", text |-> <<>>, exc |-> e, msg |-> m]

\* no invocation in progress
NoResult == [outcome |-> "none", text |-> <<>>, exc |-> "", msg |-> <<>>]

-----------------------------------------------------------------------------
(* load_template *)

\* template_path.read_text() succeeds: the file exists and can be read
Readable(fs, filename) == fs[filename].readable

\* load_template's return value: the file's text, "" when reading raised
load_template(fs, filename) ==
    IF Readable(fs, filename) THEN fs[filename].text ELSE <<>>

\* what load_template hands to logger.error
LoadLog(fs, filename) ==
    IF Readable(fs, filename) THEN <<>>
    ELSE << <<"Failed to load template ", filename>> >>

-----------------------------------------------------------------------------
(* format_news_card *)

\* article.get("url", "#")
UrlDefault == <<"#">>

\* article.get(k) without a default, formatted: the text "None"
TextDefault_None == <<"None">>

\* article.get(k, ""), for the keys other than url
TextDefault == <<>>

\* the chain cut short: the {{url}} replacement is left out
CardText_WithoutUrl(template, article) ==
    LET t1 == Replace(template, PH("title"), Get(article, "title", TextDefault))
        t2 == Replace(t1, PH("source"), Get(article, "source", TextDefault))
        t3 == Replace(t2, PH("time"), Get(article, "time", TextDefault))
    IN  Replace(t3, PH("description"), Get(article, "description", TextDefault))

\* the chain of five replacements on the loaded template
CardText(template, article) ==
    LET t1 == Replace(template, PH("title"), Get(article, "title", TextDefault))
        t2 == Replace(t1, PH("source"), Get(article, "source", TextDefault))
        t3 == Replace(t2, PH("time"), Get(article, "time", TextDefault))
        t4 == Replace(t3, PH("description"), Get(article, "description", TextDefault))
    IN  Replace(t4, PH("url"), Get(article, "url", UrlDefault))

\* format_news_card(article): its effect on loads and log, and its outcome
format_news_card(fs, article) ==
    [loads  |-> <<CardFile>>,
     log    |-> LoadLog(fs, CardFile),
     result |-> Returned(CardText(load_template(fs, CardFile), article))]

-----------------------------------------------------------------------------
(* format_news_carousel *)

\* the f-string appended to items for one article
CarouselItem(article) ==
    <<"<div class=carousel-item><article><img src=">>
    \o Get(article, "image", TextDefault)
    \o <<" alt=">> \o Get(article, "title", TextDefault)
    \o <<" onerror=hide><h3>">> \o Get(article, "title", TextDefault)
    \o <<"</h3><p class=source>">> \o Get(article, "source", TextDefault)
    \o <<" * ">> \o Get(article, "time", TextDefault)
    \o <<"</p><p class=description>">> \o Get(article, "description", TextDefault)
    \o <<"</p><a href=">> \o Get(article, "url", UrlDefault)
    \o <<" target=_blank>", ReadMore, "</a></article></div>">>

\* items after the for loop
Items(articles) ==
    Concat([i \in 1..Len(articles) |-> CarouselItem(articles[i])])

\* template.replace("{{section_title}}", section_title)
WithTitle(template, section_title) ==
    Replace(template, PH("section_title"), section_title)

\* the conditional expression of lines 68-69, on result (res) and the raw template
Expand(res, template, items) ==
    IF Contains(res, StartMarker)
    THEN LET before == Split(res, StartMarker)
             after  == Split(res, EndMarker)
         IN  IF Len(after) < 2
             THEN Raised("IndexError", <<"list index out of range">>)
             ELSE Returned(before[1] \o items \o after[2])
    ELSE Returned(template)

\* format_news_carousel(articles, section_title)
format_news_carousel(fs, articles, section_title) ==
    LET template == load_template(fs, CarouselFile)
    IN  [loads  |-> <<CarouselFile>>,
         log    |-> LoadLog(fs, CarouselFile),
         result |-> Expand(WithTitle(template, section_title), template,
                           Items(articles))]

-----------------------------------------------------------------------------
(* call_tool *)

\* the three dicts of the mock list, before the slice
MockList(topic, now) ==
    << [title       |-> <<"Breaking: ">> \o topic \o <<" - Latest Developments">>,
        source      |-> <<"News Source">>,
        time        |-> now,
        description |-> <<"Latest updates on ">> \o topic
                        \o <<" with comprehensive coverage and analysis.">>,
        url         |-> <<"https://example.com/news/1">>,
        image       |-> <<"https://via.placeholder.com/300x160">>],
       [title       |-> topic \o <<": Expert Analysis and Insights">>,
        source      |-> <<"Tech Daily">>,
        time        |-> <<"1h ago">>,
        description |-> <<"In-depth analysis of ">> \o topic
                        \o <<" and its implications for the industry.">>,
        url         |-> <<"https://example.com/news/2">>,
        image       |-> <<"https://via.placeholder.com/300x160">>],
       [title       |-> <<"Global Impact: ">> \o topic \o <<" Trends">>,
        source      |-> <<"World News">>,
        time        |-> <<"2h ago">>,
        description |-> <<"How ">> \o topic
                        \o <<" is affecting markets and communities worldwide.">>,
        url         |-> <<"https://example.com/news/3">>,
        image       |-> <<"https://via.placeholder.com/300x160">>] >>

\* arguments.get("topic", "")
TopicOf(arguments) == Get(arguments, "topic", <<>>)

\* the format defaulting to "card" instead
FormatOf_DefaultCard(arguments) == Get(arguments, "format", "card")

\* arguments.get("format", "carousel")
FormatOf(arguments) == Get(arguments, "format", "carousel")

\* arguments.get("limit", 5)
LimitOf(arguments) == Get(arguments, "limit", 5)

\* mock_articles: the list literal sliced by [:limit]
MockArticles(arguments, now) ==
    SliceTo(MockList(TopicOf(arguments), now), LimitOf(arguments))

\* f"{topic} News"
SectionTitle(topic) == topic \o <<" News">>

\* f"Unknown tool: {name}"
UnknownTool(name) == <<"Unknown tool: ", name>>

\* the dispatch test loosened to a prefix test: name.startswith("get_")
IsGetNews_Prefix(name) == name \in {"get_news", "get_weather"}

\* name == "get_news"
IsGetNews(name) == name = "get_news"

\* the card rendered before the list is tested, the fallback text chosen after
CardPath_RendersFirst(fs, mock_articles) ==
    LET article == IF mock_articles # <<>> THEN mock_articles[1]
                   ELSE [k \in {} |-> <<>>]
        run == format_news_card(fs, article)
    IN  IF mock_articles # <<>>
        THEN [invoked |-> << [fn |-> "format_news_card",
                              article |-> article] >>] @@ run
        ELSE [invoked |-> <<>>, loads |-> run.loads, log |-> run.log,
              result |-> Returned(<<"No news available">>)]

\* the else branch of line 144: the first article's card, or the fallback text
CardPath(fs, mock_articles) ==
    IF mock_articles # <<>>
    THEN [invoked |-> << [fn |-> "format_news_card",
                          article |-> mock_articles[1]] >>]
         @@ format_news_card(fs, mock_articles[1])
    ELSE [invoked |-> <<>>, loads |-> <<>>, log |-> <<>>,
          result |-> Returned(<<"No news available">>)]

\* the then branch of line 142
CarouselPath(fs, mock_articles, topic) ==
    [invoked |-> << [fn |-> "format_news_carousel",
                     articles |-> mock_articles,
                     section_title |-> SectionTitle(topic)] >>]
    @@ format_news_carousel(fs, mock_articles, SectionTitle(topic))

\* locals of call_tool when the get_news branch is not entered
NoLocals == [entered |-> FALSE]

\* call_tool(name, arguments) at clock reading now: locals, effects, outcome
call_tool(fs, name, arguments, now) ==
    IF IsGetNews(name)
    THEN LET mock_articles == MockArticles(arguments, now)
             format_type   == FormatOf(arguments)
         IN  [locals |-> [entered       |-> TRUE,
                          topic         |-> TopicOf(arguments),
                          format_type   |-> format_type,
                          limit         |-> LimitOf(arguments),
                          mock_articles |-> mock_articles]]
             @@ (IF format_type = "carousel"
                 THEN CarouselPath(fs, mock_articles, TopicOf(arguments))
                 ELSE CardPath(fs, mock_articles))
    ELSE [locals |-> NoLocals, invoked |-> <<>>, loads |-> <<>>, log |-> <<>>,
          result |-> Raised("ValueError", UnknownTool(name))]

-----------------------------------------------------------------------------
(* The inputs tried *)

\* a template file that cannot be read (missing, unreadable)
Unreadable == [readable |-> FALSE, text |-> <<>>]

File(t) == [readable |-> TRUE, text |-> t]

\* what a carousel template is put together from
CarouselParts == {<<"<h2>">>, PH("section_title"), StartMarker, EndMarker}

\* what a card template is put together from; {{image}} is a placeholder the
\* card path never fills
CardParts ==
    {<<"<p>">>} \cup {PH(f) : f \in Fields}

CarouselTemplates ==
    {Concat(parts) : parts \in SeqsUpTo(CarouselParts, MaxTemplateParts)}

CardTemplates ==
    {Concat(parts) : parts \in SeqsUpTo(CardParts, MaxCardParts)}

\* every call reads one template file only, so one file at a time is varied
FileSystems ==
    {[f \in {CardFile, CarouselFile} |-> Unreadable]}
    \cup {[f \in {CardFile, CarouselFile} |->
              IF f = CarouselFile THEN File(t) ELSE Unreadable]
          : t \in CarouselTemplates}
    \cup {[f \in {CardFile, CarouselFile} |->
              IF f = CardFile THEN File(t) ELSE Unreadable]
          : t \in CardTemplates}

ToolNames == {"get_news", "get_weather"}

\* an optional argument is <<>> (absent) or <<value>>
TopicChoices == {<<>>, << <<"AI">> >>, <<StartMarker>>, <<EndMarker>>}

FormatChoices == {<<>>, <<"carousel">>, <<"card">>, <<"grid">>}

LimitChoices == {<<>>} \cup {<<n>> : n \in -1..MaxLimit}

\* the arguments dict holding the chosen keys
Arguments(t, f, l) ==
    [k \in ((IF t = <<>> THEN {} ELSE {"topic"})
            \cup (IF f = <<>> THEN {} ELSE {"format"})
            \cup (IF l = <<>> THEN {} ELSE {"limit"}))
       |-> CASE k = "topic"  -> t[1]
             [] k = "format" -> f[1]
             [] OTHER        -> l[1]]

\* readings of datetime.now().strftime("%H:%M")
Clock == {<<"09:05">>, <<"23:59">>}

\* an article with all six keys
BaseArticle ==
    [title |-> <<"Title">>, source |-> <<"Source">>, time |-> <<"12:00">>,
     description |-> <<"Description">>, url |-> <<"http://u">>,
     image |-> <<"http://i">>]

\* field texts that look like template or fragment text
TrickyTexts == {PH("url"), PH("title"), <<"a", "{{", "b">>}

Restrict(article, keys) == [k \in keys |-> article[k]]

\* articles handed to format_news_card directly
CardArticles ==
    {Restrict(BaseArticle, keys) : keys \in SUBSET Fields}
    \cup {[BaseArticle EXCEPT ![f] = t] : f \in Fields, t \in TrickyTexts}

\* articles handed to format_news_carousel directly
CarouselArticles ==
    {BaseArticle,
     [BaseArticle EXCEPT !.title = <<ReadMore>>],
     Restrict(BaseArticle, {}),
     Restrict(BaseArticle, Fields \ {"url"}),
     Restrict(BaseArticle, {"url", "title"})}

\* section titles handed to format_news_carousel directly ("Latest News" is
\* the parameter's default)
SectionTitles ==
    {<<"Latest News">>, SectionTitle(StartMarker), SectionTitle(EndMarker)}

-----------------------------------------------------------------------------
(* The state machine *)

NoCall == [fn |-> "none"]

Init ==
    /\ files \in FileSystems
    /\ pc = "idle"
    /\ call = NoCall
    /\ locals = NoLocals
    /\ loads = <<>>
    /\ log = <<>>
    /\ invoked = <<>>
    /\ result = NoResult

\* one invocation of call_tool(name, arguments)
CallTool ==
    /\ pc = "idle"
    /\ \E name \in ToolNames, t \in TopicChoices, f \in FormatChoices,
          l \in LimitChoices, now \in Clock :
          \E arguments \in {Arguments(t, f, l)} :
          \E run \in {call_tool(files, name, arguments, now)} :
              /\ call' = [fn |-> "call_tool", name |-> name,
                          arguments |-> arguments, now |-> now]
              /\ locals' = run.locals
              /\ loads' = run.loads
              /\ log' = run.log
              /\ invoked' = run.invoked
              /\ result' = run.result
    /\ pc' = "done"
    /\ UNCHANGED files

\* format_news_card(article) called on its own
CallFormatNewsCard ==
    /\ pc = "idle"
    /\ \E article \in CardArticles :
          \E run \in {format_news_card(files, article)} :
              /\ call' = [fn |-> "format_news_card", article |-> article]
              /\ loads' = run.loads
              /\ log' = run.log
              /\ result' = run.result
    /\ pc' = "done"
    /\ UNCHANGED <<files, locals, invoked>>

\* format_news_carousel(articles, section_title) called on its own
CallFormatNewsCarousel ==
    /\ pc = "idle"
    /\ \E articles \in SeqsUpTo(CarouselArticles, MaxArticles),
          section_title \in SectionTitles :
          \E run \in {format_news_carousel(files, articles, section_title)} :
              /\ call' = [fn |-> "format_news_carousel", articles |-> articles,
                          section_title |-> section_title]
              /\ loads' = run.loads
              /\ log' = run.log
              /\ result' = run.result
    /\ pc' = "done"
    /\ UNCHANGED <<files, locals, invoked>>

\* the invocation is over; nothing of it is kept for the next one
Return ==
    /\ pc = "done"
    /\ pc' = "idle"
    /\ call' = NoCall
    /\ locals' = NoLocals
    /\ loads' = <<>>
    /\ log' = <<>>
    /\ invoked' = <<>>
    /\ result' = NoResult
    /\ UNCHANGED files

\* the server: tool calls, one at a time
Next == CallTool \/ Return

Spec == Init /\ [][Next]_vars

\* the renderers called directly
NextRender == CallFormatNewsCard \/ CallFormatNewsCarousel \/ Return

SpecRender == Init /\ [][NextRender]_vars

-----------------------------------------------------------------------------
(* Vocabulary of the properties *)

\* s.count(sub)
CountOf(s, sub) == Len(Split(s, sub)) - 1

\* the "Read more" link as the per-article fragment writes it
ReadMoreLink == <<" target=_blank>", ReadMore, "</a></article></div>">>

Braces == {"{{", "}}"}

\* no "{{" and no "}}" in t
NoBraces(t) == \A i \in 1..Len(t) : t[i] \notin Braces

\* the five keys format_news_card substitutes
CardFields == Fields \ {"image"}

RECURSIVE PlainOrFive(_)
\* t is brace-free text interleaved with placeholders of the five card fields
PlainOrFive(t) ==
    IF t = <<>> THEN TRUE
    ELSE IF t[1] \notin Braces THEN PlainOrFive(Tail(t))
    ELSE /\ \E f \in CardFields : IsAt(t, PH(f), 1)
         /\ PlainOrFive(From(t, 4))

\* exactly one start marker, exactly one end marker, in that order
OneMarkerPair(t) ==
    /\ CountOf(t, StartMarker) = 1
    /\ CountOf(t, EndMarker) = 1
    /\ Find(t, StartMarker) < Find(t, EndMarker)

\* the template text before its start marker
BeforeRegion(t) == SubSeq(t, 1, Find(t, StartMarker) - 1)

\* the template text after its end marker
AfterRegion(t) == From(t, Find(t, EndMarker) + Len(EndMarker))

\* the article with every absent key set to the text its place should show
Filled(article, urlText) ==
    [k \in Fields |->
        IF k \in DOMAIN article THEN article[k]
        ELSE IF k = "url" THEN urlText ELSE <<>>]

\* a finished direct call of format_news_card
CardDone == pc = "done" /\ call.fn = "format_news_card"

\* a finished direct call of format_news_carousel
CarouselDone == pc = "done" /\ call.fn = "format_news_carousel"

\* a finished call of call_tool
ToolDone == pc = "done" /\ call.fn = "call_tool"

\* a finished call of call_tool that entered the get_news branch
GetNewsDone == ToolDone /\ locals.entered

-----------------------------------------------------------------------------
(* C1 *)

\* C1: format_news_carousel on a template with one {{#articles}}/{{/articles}}
\* pair returns, for every article list and section title, the text before the
\* region (title substituted), then one expansion per article in input order
\* (so N "Read more" links), then the text after the region: the region is
\* replaced exactly once.
C1_CarouselExpandsEachArticleOnce ==
    (CarouselDone /\ Readable(files, CarouselFile)
        /\ OneMarkerPair(files[CarouselFile].text))
    => LET t == files[CarouselFile].text
           expansions == [i \in 1..Len(call.articles) |->
                             CarouselItem(call.articles[i])]
       IN  /\ result.outcome = "returned"
           /\ result.text = WithTitle(BeforeRegion(t), call.section_title)
                            \o Concat(expansions)
                            \o WithTitle(AfterRegion(t), call.section_title)
           /\ CountOf(result.text, ReadMoreLink) = Len(call.articles)

-----------------------------------------------------------------------------
(* C4 *)

\* C4: a call of call_tool raises exactly when its operation name is not
\* get_news; every get_news call returns a text result, whatever the
\* arguments and the template files.
C4_OnlyUnknownNameRaises ==
    ToolDone =>
        /\ (call.name = "get_news" => result.outcome = "returned")
        /\ (result.outcome = "raised" => call.name # "get_news")

-----------------------------------------------------------------------------
(* C6 *)

\* C6: format_news_carousel with an empty article list, on a template with the
\* {{section_title}} placeholder and one marker pair, returns the template
\* around the region with every {{section_title}} replaced by the section
\* title, and no per-article fragment.
C6_EmptyListKeepsTitle ==
    (CarouselDone /\ call.articles = <<>>
        /\ Readable(files, CarouselFile)
        /\ OneMarkerPair(files[CarouselFile].text)
        /\ Contains(files[CarouselFile].text, PH("section_title")))
    => LET t == files[CarouselFile].text
       IN  /\ result.outcome = "returned"
           /\ CountOf(result.text, ReadMoreLink) = 0
           /\ result.text = WithTitle(BeforeRegion(t), call.section_title)
                            \o WithTitle(AfterRegion(t), call.section_title)

-----------------------------------------------------------------------------
(* C9 *)

\* C9: format_news_carousel on a template that lacks the start marker or the
\* end marker returns the loaded template unchanged, for every article list
\* and section title.
C9_IncompletePairReturnsTemplate ==
    (CarouselDone
        /\ ~ (Contains(load_template(files, CarouselFile), StartMarker)
              /\ Contains(load_template(files, CarouselFile), EndMarker)))
    => result = Returned(load_template(files, CarouselFile))

-----------------------------------------------------------------------------
(* C2 *)

\* C2 as claimed: format_news_card on an article holding all six fields
\* returns text with no "{{" and no "}}", whatever the fields' texts.
C2_CardOutputHasNoBraces ==
    (CardDone /\ DOMAIN call.article = Fields
        /\ Readable(files, CardFile))
    => NoBraces(result.text)

\* C2 as amended: when the card template is brace-free text interleaved with
\* placeholders of title, source, time, description and url only, and these
\* five fields of the article hold no brace, the returned text has no "{{"
\* and no "}}".
C2_CardResolvesFivePlaceholders ==
    (CardDone /\ DOMAIN call.article = Fields
        /\ PlainOrFive(load_template(files, CardFile))
        /\ \A f \in CardFields : NoBraces(call.article[f]))
    => /\ result.outcome = "returned"
       /\ NoBraces(result.text)

\* a card template with the {{url}} and {{title}} placeholders was rendered
\* from a full, brace-free article and shows the article's url and title
C2_Witness ==
    /\ CardDone
    /\ call.article = BaseArticle
    /\ files[CardFile] = File(PH("title") \o PH("url"))
    /\ result.text = <<"Title", "http://u">>

-----------------------------------------------------------------------------
(* C3 *)

\* the source names of the three fixed articles, in their order
FixedSources == << <<"News Source">>, <<"Tech Daily">>, <<"World News">> >>

\* C3: in get_news, for every topic T and every limit L >= 0, mock_articles
\* has min(L, 3) entries, the i-th being the i-th fixed article, with T in
\* its title.
C3_MockListIsFirstLimitOfThree ==
    (GetNewsDone /\ locals.limit >= 0)
    => LET L == locals.limit
           T == Get(call.arguments, "topic", <<>>)
           m == locals.mock_articles
       IN  /\ Len(m) = (IF L >= 3 THEN 3 ELSE L)
           /\ \A i \in 1..Len(m) :
                 /\ DOMAIN m[i] = Fields
                 /\ m[i].source = FixedSources[i]
                 /\ Contains(m[i].title, T)
                 /\ Contains(m[i].description, T)

\* a get_news call with topic AI and limit 2 built the first two articles
C3_Witness ==
    /\ GetNewsDone
    /\ "limit" \in DOMAIN call.arguments /\ call.arguments.limit = 2
    /\ "topic" \in DOMAIN call.arguments /\ call.arguments.topic = <<"AI">>
    /\ Len(locals.mock_articles) = 2
    /\ locals.mock_articles[2].title = <<"AI", ": Expert Analysis and Insights">>

-----------------------------------------------------------------------------
(* C5 *)

\* C5: call_tool with a name other than get_news raises an error whose
\* message holds the name, builds no mock article, loads no template, calls
\* no renderer and returns no content, whatever the arguments.
C5_UnknownNameRaises ==
    (ToolDone /\ call.name # "get_news")
    => /\ result.outcome = "raised"
       /\ result.exc = "ValueError"
       /\ Contains(result.msg, <<call.name>>)
       /\ result.text = <<>>
       /\ ~ locals.entered
       /\ loads = <<>>
       /\ invoked = <<>>

\* get_weather was called with a topic and a limit, and was refused
C5_Witness ==
    /\ ToolDone
    /\ call.name = "get_weather"
    /\ DOMAIN call.arguments = {"topic", "format", "limit"}
    /\ result.outcome = "raised"
    /\ result.msg = <<"Unknown tool: ", "get_weather">>

-----------------------------------------------------------------------------
(* C7 *)

\* C7: on the card path of get_news with an empty mock list the result is the
\* text "No news available" and load_template is not called.
C7_EmptyCardIsFallbackText ==
    (GetNewsDone /\ locals.format_type # "carousel"
        /\ locals.mock_articles = <<>>)
    => /\ result = Returned(<<"No news available">>)
       /\ loads = <<>>
       /\ log = <<>>
       /\ invoked = <<>>

\* get_news was called with format card and limit 0
C7_Witness ==
    /\ GetNewsDone
    /\ locals.format_type = "card"
    /\ locals.limit = 0
    /\ locals.mock_articles = <<>>
    /\ result.text = <<"No news available">>

-----------------------------------------------------------------------------
(* C8 *)

\* the outcome a direct renderer call should have when every absent field of
\* its articles shows as the given texts
AsIfFilled(urlText) ==
    IF call.fn = "format_news_card"
    THEN format_news_card(files, Filled(call.article, urlText)).result
    ELSE format_news_carousel(files,
             [i \in 1..Len(call.articles) |-> Filled(call.articles[i], urlText)],
             call.section_title).result

\* C8 as claimed: an article that lacks title, source, time, description, url
\* (or image, in the carousel) renders as if the field held the empty text,
\* and the absence makes no call fail.
C8_MissingFieldRendersEmpty ==
    (CardDone \/ CarouselDone)
    => /\ result = AsIfFilled(<<>>)
       /\ (CardDone => result.outcome = "returned")

\* C8 as amended: an absent title, source, time, description (or image, in
\* the carousel) renders as the empty text and an absent url renders as "#";
\* the absence makes no call fail.
C8_MissingFieldRendersDefault ==
    (CardDone \/ CarouselDone)
    => /\ result = AsIfFilled(<<"#">>)
       /\ (CardDone => result.outcome = "returned")

\* a card template with {{title}} and {{url}} was rendered from an article
\* that has neither field
C8_Witness ==
    /\ CardDone
    /\ call.article = Restrict(BaseArticle, {"source", "time"})
    /\ files[CardFile] = File(PH("title") \o PH("url"))
    /\ result = Returned(<<"#">>)

-----------------------------------------------------------------------------
(* C10 *)

\* the effects and outcome of the finished call, as call_tool reports them
Observed ==
    [locals |-> locals, invoked |-> invoked, loads |-> loads, log |-> log,
     result |-> result]

\* the arguments with key k set to v
WithKey(arguments, k, v) ==
    [x \in DOMAIN arguments \cup {k} |-> IF x = k THEN v ELSE arguments[x]]

\* C10: in get_news an absent format acts as "carousel" and an absent limit as
\* 5; a format other than "carousel" takes the card path, which for every
\* limit >= 1 renders the first fixed article only; the carousel path is
\* handed the first min(limit, 3) articles.
C10_DispatchOnFormat ==
    GetNewsDone
    => LET a == call.arguments
           L == locals.limit
           first == MockList(locals.topic, call.now)[1]
       IN  /\ "format" \notin DOMAIN a
                => Observed = call_tool(files, "get_news",
                                  WithKey(a, "format", "carousel"), call.now)
           /\ "limit" \notin DOMAIN a
                => Observed = call_tool(files, "get_news",
                                  WithKey(a, "limit", 5), call.now)
           /\ "format" \in DOMAIN a => locals.format_type = a.format
           /\ "limit" \in DOMAIN a => L = a.limit
           /\ (locals.format_type # "carousel" /\ L >= 1)
                => /\ invoked = <<[fn |-> "format_news_card", article |-> first]>>
                   /\ loads = <<CardFile>>
                   /\ result = Returned(CardText(load_template(files, CardFile),
                                                 first))
           /\ locals.format_type # "carousel"
                => \A i \in 1..Len(invoked) : invoked[i].fn = "format_news_card"
           /\ locals.format_type = "carousel"
                => /\ Len(invoked) = 1
                   /\ invoked[1].fn = "format_news_carousel"
                   /\ L >= 0 => Len(invoked[1].articles) = (IF L >= 3 THEN 3 ELSE L)
                   /\ loads = <<CarouselFile>>

\* get_news was called with neither format nor limit and handed three
\* articles to the carousel
C10_Witness ==
    /\ GetNewsDone
    /\ DOMAIN call.arguments = {"topic"}
    /\ Len(invoked) = 1
    /\ invoked[1].fn = "format_news_carousel"
    /\ Len(invoked[1].articles) = 3
    /\ result.outcome = "returned"

=============================================================================
